---- MODULE Spec2Model ----
(***************************************************************************)
(* book_alchemy: a Flask application over two SQLAlchemy models, Author    *)
(* and Book, stored in a SQLite file.  The state is the two tables; the    *)
(* operations are the four POST handlers of app.py (add_author, add_book,  *)
(* delete_author, delete_book).                                            *)
(*                                                                         *)
(*   Spec       every handler runs to completion as one step               *)
(*   SpecSteps  one request at a time, one step per database round trip,   *)
(*              and a delete_book request may stop between its two commits *)
(*   SpecConc   two requests in flight (the development server is          *)
(*              threaded), their round trips interleaved                   *)
(***************************************************************************)
EXTENDS Integers, Sequences, FiniteSets, TLC

VARIABLES
    authors,    \* the author table: a set of rows
    books,      \* the book table: a set of rows
    resp,       \* the response to the last finished request
    req,        \* per worker thread: the request it is handling and where it is
    last        \* history: the last finished request's input and the keys of
                \* the rows its last write removed

vars == <<authors, books, resp, req, last>>

-----------------------------------------------------------------------------
(* Bounds *)

\* largest primary key the author table hands out in the model
MaxAuthorId == 2
\* largest primary key the book table hands out in the model
MaxBookId == 2

-----------------------------------------------------------------------------
(* Text: form values that the code parses are sequences of characters *)

Digits == {"0", "1", "2", "3", "4", "5", "6", "7", "8", "9"}

DigitVal(c) ==
    CASE c = "0" -> 0 [] c = "1" -> 1 [] c = "2" -> 2 [] c = "3" -> 3
      [] c = "4" -> 4 [] c = "5" -> 5 [] c = "6" -> 6 [] c = "7" -> 7
      [] c = "8" -> 8 [] c = "9" -> 9

AllDigits(s) == \A i \in 1..Len(s) : s[i] \in Digits

RECURSIVE NatVal(_)
NatVal(s) == IF s = <<>> THEN 0
             ELSE 10 * NatVal(SubSeq(s, 1, Len(s) - 1)) + DigitVal(s[Len(s)])

RECURSIVE LStrip(_)
LStrip(s) == IF s # <<>> /\ s[1] = " " THEN LStrip(Tail(s)) ELSE s

RECURSIVE RStrip(_)
RStrip(s) == IF s # <<>> /\ s[Len(s)] = " "
             THEN RStrip(SubSeq(s, 1, Len(s) - 1)) ELSE s

Strip(s) == RStrip(LStrip(s))

\* int(text): surrounding blanks, an optional sign, then at least one digit
Unsigned(s) == LET t == Strip(s) IN
               IF t # <<>> /\ t[1] \in {"+", "-"} THEN Tail(t) ELSE t

IntOk(s) == Unsigned(s) # <<>> /\ AllDigits(Unsigned(s))

IntVal(s) == LET t == Strip(s) IN
             IF t[1] = "-" THEN 0 - NatVal(Unsigned(s)) ELSE NatVal(Unsigned(s))

\* the part of s before the first "-", and the part after it
RECURSIVE Before(_)
Before(s) == IF s = <<>> \/ s[1] = "-" THEN <<>> ELSE <<s[1]>> \o Before(Tail(s))

After(s) == IF Len(Before(s)) = Len(s) THEN <<>>
            ELSE SubSeq(s, Len(Before(s)) + 2, Len(s))

HasDash(s) == \E i \in 1..Len(s) : s[i] = "-"

IsLeap(y) == (y % 4 = 0 /\ y % 100 # 0) \/ y % 400 = 0

DaysIn(y, m) == CASE m \in {4, 6, 9, 11} -> 30
                  [] m = 2 -> IF IsLeap(y) THEN 29 ELSE 28
                  [] OTHER -> 31

\* datetime.strptime(text, "%Y-%m-%d").date(): the three fields of the text
DateY(s) == Before(s)
DateM(s) == Before(After(s))
DateD(s) == After(After(s))

DateOk(s) ==
    /\ HasDash(s) /\ HasDash(After(s)) /\ ~HasDash(DateD(s))
    /\ Len(DateY(s)) = 4 /\ AllDigits(DateY(s)) /\ NatVal(DateY(s)) >= 1
    /\ Len(DateM(s)) \in {1, 2} /\ AllDigits(DateM(s))
    /\ NatVal(DateM(s)) \in 1..12
    /\ Len(DateD(s)) \in {1, 2} /\ AllDigits(DateD(s))
    /\ NatVal(DateD(s)) \in 1..DaysIn(NatVal(DateY(s)), NatVal(DateM(s)))

DateVal(s) == <<NatVal(DateY(s)), NatVal(DateM(s)), NatVal(DateD(s))>>

\* a NULL date column
NoDate == <<>>

-----------------------------------------------------------------------------
(* Forms: a function from the field names present in the request *)

Has(form, k) == k \in DOMAIN form

\* request.form.get(k) followed by a truth test: None and "" are both false
Truthy(form, k) == Has(form, k) /\ form[k] # <<>>

D_2000_02_29 == <<"2", "0", "0", "0", "-", "0", "2", "-", "2", "9">>
D_2001_3_1   == <<"2", "0", "0", "1", "-", "3", "-", "1">>
D_2001_02_29 == <<"2", "0", "0", "1", "-", "0", "2", "-", "2", "9">>
D_slashes    == <<"2", "0", "0", "0", "/", "0", "2", "/", "2", "9">>

AuthorForms ==
    { [name |-> "n", birthdate |-> D_2000_02_29, date_of_death |-> D_2001_3_1],
      [name |-> "", birthdate |-> <<>>, date_of_death |-> <<>>],
      [name |-> ""],
      [birthdate |-> D_2000_02_29, date_of_death |-> <<>>],
      [name |-> "n", birthdate |-> D_2001_02_29, date_of_death |-> <<>>],
      [name |-> "n", birthdate |-> <<>>, date_of_death |-> D_slashes] }

Isbns == {"i1", "i2"}
AuthorTexts == {<<>>, <<"1">>, <<" ", "2">>, <<"-", "9">>, <<"1", "x">>}

BookForm(isbn, year, author) ==
    [title |-> "t", isbn |-> isbn, publication_year |-> year, author |-> author]

\* every field present
CompleteBookForms ==
    {BookForm(i, <<"1">>, a) : i \in Isbns, a \in AuthorTexts}
    \cup {BookForm("i1", <<"x">>, a) : a \in {<<>>, <<"1">>}}

Without(form, ks) == [k \in DOMAIN form \ ks |-> form[k]]

\* fields left out of the request
PartialBookForms ==
    {Without(BookForm("i1", <<"1">>, a), ks) :
        a \in {<<>>, <<"1">>},
        ks \in {{"title"}, {"isbn"}, {"publication_year"}, {"author"},
                {"title", "author"}, {"publication_year", "author"}}}

BookForms == CompleteBookForms \cup PartialBookForms

-----------------------------------------------------------------------------
(* The store *)

Ids(rows) == {r.id : r \in rows}

Max(S) == CHOOSE x \in S : \A y \in S : y <= x

\* an INTEGER PRIMARY KEY without AUTOINCREMENT: one more than the largest
\* key in the table, so the key of a deleted last row is handed out again
NextId(rows) == IF rows = {} THEN 1 ELSE Max(Ids(rows)) + 1

\* SQLite checks a FOREIGN KEY only on a connection that has run
\* PRAGMA foreign_keys = ON; the application configures none
foreign_keys == FALSE

\* UNIQUE (isbn)
IsbnFreeAlways(isbn, bks) == TRUE

IsbnFree(isbn, bks) == \A b \in bks : b.isbn # isbn

\* FOREIGN KEY (author_id) REFERENCES author (id)
AuthorRefOk(aid, auths) == foreign_keys => aid \in Ids(auths)

\* Author.books / Book.author: the rows a relationship loads
BooksOfNone(aid, bks) == {}

BooksOf(aid, bks) == {b \in bks : b.author_id = aid}

\* Book.author resolves author_id to a row, or to None (0 is no author's key)
AuthorOfFirst(book, auths) == IF auths = {} THEN 0 ELSE Max(Ids(auths))

AuthorOf(book, auths) == IF book.author_id \in Ids(auths) THEN book.author_id ELSE 0

Row(rows, id) == CHOOSE r \in rows : r.id = id

\* DELETE FROM t WHERE id = ?
DeleteIds(rows, ids) == {r \in rows : r.id \notin ids}

-----------------------------------------------------------------------------
(* Responses *)

Resp(op, arg, status, flash, location) ==
    [op |-> op, arg |-> arg, status |-> status, flash |-> flash, location |-> location]

Redirect(op, arg, flash, location) == Resp(op, arg, 302, flash, location)

\* werkzeug turns the KeyError of request.form[k] into 400 Bad Request
BadRequest(op) == Resp(op, 0, 400, "", "")

NotFound(op, arg) == Resp(op, arg, 404, "", "")

\* an exception no handler catches
ServerError(op, arg) == Resp(op, arg, 500, "", "")

NoResp == Resp("", 0, 0, "", "")

-----------------------------------------------------------------------------
(* add_author, POST *)

DateFieldOk(form, k) == Truthy(form, k) => DateOk(form[k])

DateField(form, k) == IF Truthy(form, k) THEN DateVal(form[k]) ELSE NoDate

NewAuthor(form, auths) ==
    [id |-> NextId(auths), name |-> form["name"],
     birth_date |-> DateField(form, "birthdate"),
     date_of_death |-> DateField(form, "date_of_death")]

add_author(form, auths) ==
    IF ~Has(form, "name")
    THEN [authors |-> auths, resp |-> BadRequest("add_author")]
    ELSE IF ~(DateFieldOk(form, "birthdate") /\ DateFieldOk(form, "date_of_death"))
    THEN [authors |-> auths,
          resp |-> Redirect("add_author", 0, "Error adding author", "add_author")]
    ELSE [authors |-> auths \cup {NewAuthor(form, auths)},
          resp |-> Redirect("add_author", 0, "Author added successfully!", "authors")]

-----------------------------------------------------------------------------
(* add_book, POST *)

\* lines 94-96 read three fields with request.form[k], before the try
BookFormReadOk(form) ==
    Has(form, "title") /\ Has(form, "isbn") /\ Has(form, "publication_year")

NewBook(form, bks) ==
    [id |-> NextId(bks), isbn |-> form["isbn"], title |-> form["title"],
     publication_year |-> IntVal(form["publication_year"]),
     author_id |-> IntVal(form["author"])]

\* the Book(...) constructor call succeeds
BookParseOk(form) == IntOk(form["publication_year"]) /\ IntOk(form["author"])

\* a request that reaches the commit: all fields present and parseable
WellFormedBookForm(form) ==
    BookFormReadOk(form) /\ Truthy(form, "author") /\ BookParseOk(form)

\* db.session.add; db.session.commit
BookCommitOk(row, bks, auths) ==
    IsbnFree(row.isbn, bks) /\ AuthorRefOk(row.author_id, auths)

add_book(form, bks, auths) ==
    IF ~BookFormReadOk(form)
    THEN [books |-> bks, resp |-> BadRequest("add_book")]
    ELSE IF ~Truthy(form, "author")
    THEN [books |-> bks,
          resp |-> Redirect("add_book", 0, "Author selection is required.", "add_book")]
    ELSE IF ~BookParseOk(form) \/ ~BookCommitOk(NewBook(form, bks), bks, auths)
    THEN [books |-> bks,
          resp |-> Redirect("add_book", 0, "Error adding book", "add_book")]
    ELSE [books |-> bks \cup {NewBook(form, bks)},
          resp |-> Redirect("add_book", 0, "Book added successfully!", "home")]

-----------------------------------------------------------------------------
(* delete_author, delete_book *)

delete_author(author_id, auths, bks) ==
    IF author_id \notin Ids(auths)
    THEN [authors |-> auths, books |-> bks,
          resp |-> NotFound("delete_author", author_id)]
    ELSE [authors |-> DeleteIds(auths, {author_id}),
          books |-> DeleteIds(bks, Ids(BooksOf(author_id, bks))),
          resp |-> Redirect("delete_author", author_id,
                            "Author deleted successfully!", "authors")]

\* line 175: author and not author.books, read after the first commit
OrphanAlways(author, bks) == author # 0

Orphan(author, bks) == author # 0 /\ BooksOf(author, bks) = {}

delete_book(book_id, auths, bks) ==
    IF book_id \notin Ids(bks)
    THEN [authors |-> auths, books |-> bks,
          resp |-> NotFound("delete_book", book_id)]
    ELSE LET author == AuthorOf(Row(bks, book_id), auths)
             bks1 == DeleteIds(bks, {book_id})
         IN  [authors |-> IF Orphan(author, bks1)
                          THEN DeleteIds(auths, {author}) ELSE auths,
              books |-> bks1,
              resp |-> Redirect("delete_book", book_id,
                                "Book deleted successfully!", "home")]

-----------------------------------------------------------------------------
(* Spec: every request handled to completion in one step *)

Procs == {1, 2}

Idle == [pc |-> "idle"]

Last(input, auths1, bks1) ==
    [input |-> input,
     authors_gone |-> Ids(authors) \ Ids(auths1),
     books_gone |-> Ids(books) \ Ids(bks1)]

Init ==
    /\ authors = {}
    /\ books = {}
    /\ resp = NoResp
    /\ req = [p \in Procs |-> Idle]
    /\ last = [input |-> [id |-> 0], authors_gone |-> {}, books_gone |-> {}]

\* path converter <int:...>: a non-negative integer
AuthorUrlIds == 0..MaxAuthorId
BookUrlIds == 0..MaxBookId

AddAuthor ==
    \E form \in AuthorForms :
        LET r == add_author(form, authors) IN
        /\ Ids(r.authors) \subseteq 1..MaxAuthorId
        /\ authors' = r.authors
        /\ resp' = r.resp
        /\ last' = Last(form, r.authors, books)
        /\ UNCHANGED <<books, req>>

AddBook ==
    \E form \in BookForms :
        LET r == add_book(form, books, authors) IN
        /\ Ids(r.books) \subseteq 1..MaxBookId
        /\ books' = r.books
        /\ resp' = r.resp
        /\ last' = Last(form, authors, r.books)
        /\ UNCHANGED <<authors, req>>

DeleteAuthor ==
    \E author_id \in AuthorUrlIds :
        LET r == delete_author(author_id, authors, books) IN
        /\ authors' = r.authors
        /\ books' = r.books
        /\ resp' = r.resp
        /\ last' = Last([id |-> author_id], r.authors, r.books)
        /\ UNCHANGED req

DeleteBook ==
    \E book_id \in BookUrlIds :
        LET r == delete_book(book_id, authors, books) IN
        /\ authors' = r.authors
        /\ books' = r.books
        /\ resp' = r.resp
        /\ last' = Last([id |-> book_id], r.authors, r.books)
        /\ UNCHANGED req

Next == AddAuthor \/ AddBook \/ DeleteAuthor \/ DeleteBook

Spec == Init /\ [][Next]_vars

-----------------------------------------------------------------------------
(* The handlers one database round trip at a time.  Worker thread p holds *)
(* in req[p] what its request has loaded into its session so far.         *)

Free(p) == req[p].pc \in {"idle", "stopped"}

Finish(p, r, input, auths1, bks1) ==
    /\ req' = [req EXCEPT ![p] = Idle]
    /\ resp' = r
    /\ last' = Last(input, auths1, bks1)

Continue(p, r) ==
    /\ req' = [req EXCEPT ![p] = r]
    /\ UNCHANGED <<resp, last>>

\* add_author lines 48-67: read the form, parse the dates, build the Author
AddAuthorBegin(p, form) ==
    /\ Free(p)
    /\ UNCHANGED <<authors, books>>
    /\ IF Has(form, "name") /\ DateFieldOk(form, "birthdate")
                            /\ DateFieldOk(form, "date_of_death")
       THEN Continue(p, [pc |-> "aa_commit", form |-> form])
       ELSE Finish(p, add_author(form, authors).resp, form, authors, books)

\* add_author lines 70-73
AddAuthorCommit(p) ==
    /\ req[p].pc = "aa_commit"
    /\ LET r == add_author(req[p].form, authors) IN
       /\ Ids(r.authors) \subseteq 1..MaxAuthorId
       /\ authors' = r.authors
       /\ Finish(p, r.resp, req[p].form, r.authors, books)
    /\ UNCHANGED books

\* add_book lines 93-111: read the form, check the author field, build the Book
AddBookBegin(p, form) ==
    /\ Free(p)
    /\ UNCHANGED <<authors, books>>
    /\ IF WellFormedBookForm(form)
       THEN Continue(p, [pc |-> "ab_commit", form |-> form])
       ELSE Finish(p, add_book(form, books, authors).resp, form, authors, books)

\* add_book lines 114-121
AddBookCommit(p) ==
    /\ req[p].pc = "ab_commit"
    /\ LET r == add_book(req[p].form, books, authors) IN
       /\ Ids(r.books) \subseteq 1..MaxBookId
       /\ books' = r.books
       /\ Finish(p, r.resp, req[p].form, authors, r.books)
    /\ UNCHANGED authors

\* delete_author line 150
DeleteAuthorGet(p, author_id) ==
    /\ Free(p)
    /\ UNCHANGED <<authors, books>>
    /\ IF author_id \in Ids(authors)
       THEN Continue(p, [pc |-> "da_delete", author |-> author_id])
       ELSE Finish(p, NotFound("delete_author", author_id), [id |-> author_id],
                   authors, books)

\* delete_author line 151: the delete cascade loads author.books
DeleteAuthorMark(p) ==
    /\ req[p].pc = "da_delete"
    /\ UNCHANGED <<authors, books>>
    /\ Continue(p, [pc |-> "da_commit", author |-> req[p].author,
                    loaded |-> Ids(BooksOf(req[p].author, books))])

\* delete_author lines 152-154: DELETE the loaded books, DELETE the author
DeleteAuthorCommit(p) ==
    /\ req[p].pc = "da_commit"
    /\ authors' = DeleteIds(authors, {req[p].author})
    /\ books' = DeleteIds(books, req[p].loaded)
    /\ Finish(p, Redirect("delete_author", req[p].author,
                          "Author deleted successfully!", "authors"),
              [id |-> req[p].author], authors', books')

\* delete_book line 170
DeleteBookGet(p, book_id) ==
    /\ Free(p)
    /\ UNCHANGED <<authors, books>>
    /\ IF book_id \in Ids(books)
       THEN Continue(p, [pc |-> "db_author", book_id |-> book_id,
                         author_id |-> Row(books, book_id).author_id])
       ELSE Finish(p, NotFound("delete_book", book_id), [id |-> book_id],
                   authors, books)

\* delete_book line 171: book.author
DeleteBookAuthor(p) ==
    /\ req[p].pc = "db_author"
    /\ UNCHANGED <<authors, books>>
    /\ Continue(p, [pc |-> "db_delete", book_id |-> req[p].book_id,
                    author |-> AuthorOf(req[p], authors)])

\* what the first commit of delete_book writes
FirstCommitWithAuthor(book_id, author, auths, bks) ==
    [authors |-> IF Orphan(author, DeleteIds(bks, {book_id}))
                 THEN DeleteIds(auths, {author}) ELSE auths,
     books |-> DeleteIds(bks, {book_id})]

FirstCommit(book_id, author, auths, bks) ==
    [authors |-> auths, books |-> DeleteIds(bks, {book_id})]

\* delete_book lines 172-173
DeleteBookCommit(p) ==
    /\ req[p].pc = "db_delete"
    /\ LET w == FirstCommit(req[p].book_id, req[p].author, authors, books) IN
       /\ authors' = w.authors
       /\ books' = w.books
    /\ req' = [req EXCEPT ![p] = [pc |-> "db_check", book_id |-> req[p].book_id,
                                  author |-> req[p].author]]
    /\ last' = Last([id |-> req[p].book_id], authors', books')
    /\ UNCHANGED resp

BookDeleted(book_id) ==
    Redirect("delete_book", book_id, "Book deleted successfully!", "home")

\* delete_book line 175: the commit expired the author, so author.books
\* reloads it (ObjectDeletedError when its row is gone) and then its books
DeleteBookCheck(p) ==
    /\ req[p].pc = "db_check"
    /\ UNCHANGED <<authors, books>>
    /\ IF req[p].author # 0 /\ req[p].author \notin Ids(authors)
       THEN Finish(p, ServerError("delete_book", req[p].book_id),
                   [id |-> req[p].book_id], authors, books)
       ELSE IF Orphan(req[p].author, books)
       THEN Continue(p, [req[p] EXCEPT !.pc = "db_orphan"])
       ELSE Finish(p, BookDeleted(req[p].book_id), [id |-> req[p].book_id],
                   authors, books)

\* delete_book lines 176-180: author.books was loaded empty, so the flush
\* deletes the author row alone
DeleteOrphanCommit(p) ==
    /\ req[p].pc = "db_orphan"
    /\ authors' = DeleteIds(authors, {req[p].author})
    /\ UNCHANGED books
    /\ Finish(p, BookDeleted(req[p].book_id), [id |-> req[p].book_id],
              authors', books)

InGap(r) == r.pc \in {"db_check", "db_orphan"}

\* the request ends between its first commit and its second (the reload or
\* the second commit raises, or the server process goes away)
DeleteBookStop(p) ==
    /\ InGap(req[p])
    /\ req' = [req EXCEPT ![p] = [req[p] EXCEPT !.pc = "stopped"]]
    /\ resp' = ServerError("delete_book", req[p].book_id)
    /\ last' = Last([id |-> req[p].book_id], authors, books)
    /\ UNCHANGED <<authors, books>>

\* the requests of the step-wise specifications: fewer forms, every path
StepAuthorForms ==
    { [name |-> "n", birthdate |-> D_2000_02_29, date_of_death |-> D_2001_3_1],
      [birthdate |-> D_2000_02_29, date_of_death |-> <<>>] }

StepBookForms ==
    {BookForm(i, <<"1">>, a) : i \in Isbns, a \in {<<"1">>, <<" ", "2">>}}
    \cup {Without(BookForm("i1", <<"1">>, <<"1">>), {"author"})}

Step(p) ==
    \/ \E form \in StepAuthorForms : AddAuthorBegin(p, form)
    \/ AddAuthorCommit(p)
    \/ \E form \in StepBookForms : AddBookBegin(p, form)
    \/ AddBookCommit(p)
    \/ \E author_id \in AuthorUrlIds : DeleteAuthorGet(p, author_id)
    \/ DeleteAuthorMark(p)
    \/ DeleteAuthorCommit(p)
    \/ \E book_id \in BookUrlIds : DeleteBookGet(p, book_id)
    \/ DeleteBookAuthor(p)
    \/ DeleteBookCommit(p)
    \/ DeleteBookCheck(p)
    \/ DeleteOrphanCommit(p)
    \/ DeleteBookStop(p)

\* one request at a time
NextSteps == Step(1)

SpecSteps == Init /\ [][NextSteps]_vars

\* requests of two threads interleaved: add-author, add-book naming an
\* Author that is in the store when the request arrives, delete-book
ConcAuthorForms == {f \in StepAuthorForms : Has(f, "name")}

ConcBookForms == {f \in StepBookForms : WellFormedBookForm(f)}

ConcStep(p) ==
    \/ \E form \in ConcAuthorForms : AddAuthorBegin(p, form)
    \/ AddAuthorCommit(p)
    \/ \E form \in ConcBookForms :
          /\ IntVal(form["author"]) \in Ids(authors)
          /\ AddBookBegin(p, form)
    \/ AddBookCommit(p)
    \/ \E book_id \in BookUrlIds : DeleteBookGet(p, book_id)
    \/ DeleteBookAuthor(p)
    \/ DeleteBookCommit(p)
    \/ DeleteBookCheck(p)
    \/ DeleteOrphanCommit(p)

NextConc == \E p \in Procs : ConcStep(p)

SpecConc == Init /\ [][NextConc]_vars

-----------------------------------------------------------------------------
(* Properties of Spec *)

\* the Books whose author_id is aid
OwnedBy(aid, bks) == {b \in bks : b.author_id = aid}

Finished(op) == resp.op = op
Succeeded(op) == resp.op = op /\ resp.status = 302 /\ resp.location \in {"authors", "home"}

\* C1: a delete-author request on an existing Author A, whatever Books A
\* owns, ends with A absent and every Book whose author_id was A's id absent.
C1_DeleteAuthorCascades ==
    [][\A a \in authors :
          (resp'.op = "delete_author" /\ last'.input.id = a.id)
          => /\ a.id \notin Ids(authors')
             /\ OwnedBy(a.id, books') = {}
             /\ resp'.status = 302]_vars

\* an Author that owned two Books has just been deleted
C1_Witness ==
    /\ Succeeded("delete_author")
    /\ Cardinality(last.books_gone) = 2
    /\ last.authors_gone = {last.input.id}

\* C2: a delete-book request on an existing Book B of an existing Author A
\* removes A exactly when B was A's only Book; otherwise A and A's other
\* Books are still present.
C2_DeleteBookOrphanRule ==
    [][\A b \in books : \A a \in authors :
          (resp'.op = "delete_book" /\ last'.input.id = b.id /\ b.author_id = a.id)
          => /\ b \notin books'
             /\ (a \notin authors') <=> (OwnedBy(a.id, books) = {b})
             /\ (OwnedBy(a.id, books) # {b}
                   => a \in authors' /\ OwnedBy(a.id, books) \ {b} \subseteq books')]_vars

\* the last Book of an Author has just been deleted, and the Author with it
C2_Witness ==
    /\ Succeeded("delete_book")
    /\ last.books_gone = {last.input.id}
    /\ Cardinality(last.authors_gone) = 1

UniqueIsbn == \A b1, b2 \in books : b1.isbn = b2.isbn => b1 = b2

DuplicateIsbn(form, bks) == Has(form, "isbn") /\ \E b \in bks : b.isbn = form["isbn"]

\* C3: no two Books share an isbn; an add-book request with the isbn of an
\* existing Book fails and leaves the Book table as it was.
C3_IsbnUnique ==
    [][/\ UniqueIsbn /\ UniqueIsbn'
       /\ (resp'.op = "add_book" /\ DuplicateIsbn(last'.input, books))
          => /\ books' = books
             /\ resp'.flash # "Book added successfully!"
             /\ WellFormedBookForm(last'.input)
                  => resp' = Redirect("add_book", 0, "Error adding book", "add_book")]_vars

\* a well-formed add-book request has just been refused for its isbn
C3_Witness ==
    /\ Finished("add_book")
    /\ WellFormedBookForm(last.input)
    /\ DuplicateIsbn(last.input, books)
    /\ resp.flash = "Error adding book"

\* C4: every Book's author_id is the id of an Author in the store.
C4_BookHasAuthor == \A b \in books : b.author_id \in Ids(authors)

\* C5: a POST add-author request with the empty string as name fails and
\* leaves the Author table as it was.
C5_EmptyNameRejected ==
    [][(resp'.op = "add_author" /\ Has(last'.input, "name") /\ last'.input["name"] = "")
       => /\ authors' = authors
          /\ resp' = Redirect("add_author", 0, "Error adding author", "add_author")]_vars

\* C6: every POST add-book request with a missing or empty author field,
\* whatever its other fields, ends with the author-selection notification,
\* a redirect to the add-book form, and no new Book.
C6_AuthorCheckedFirst ==
    [][(resp'.op = "add_book" /\ ~Truthy(last'.input, "author"))
       => /\ books' = books
          /\ resp' = Redirect("add_book", 0, "Author selection is required.", "add_book")]_vars

\* C7: every POST add-author or add-book request ends in a redirect: to
\* the listing on success, to the originating form with a notification on
\* any failure.
C7_AddFailuresCaught ==
    (resp.op \in {"add_author", "add_book"})
    => /\ resp.status = 302
       /\ resp.flash # ""
       /\ resp.location \in {"authors", "home", resp.op}

\* C9: an Author leaves the store only in a delete-author request on its
\* id, or in a delete-book request on a Book it owned that leaves it with
\* no Book; an Author without Books leaves only in the former.
C9_AuthorLeavesOnlyByDelete ==
    [][\A a \in authors :
          a \notin authors'
          => \/ resp'.op = "delete_author" /\ last'.input.id = a.id
             \/ /\ resp'.op = "delete_book"
                /\ OwnedBy(a.id, books) # {}
                /\ \E b \in OwnedBy(a.id, books) : last'.input.id = b.id
                /\ OwnedBy(a.id, books') = {}]_vars

\* an Author without Books is still there after another Author, who owned
\* a Book, was deleted
C9_Witness ==
    /\ Succeeded("delete_author")
    /\ last.books_gone # {}
    /\ \E a \in authors : OwnedBy(a.id, books) = {}

-----------------------------------------------------------------------------
(* Properties of SpecSteps and SpecConc *)

\* C8: delete-book commits twice.  Between the two commits the Book is
\* absent and its Author, now perhaps without Books, is still present; a
\* request that stops there leaves the tables as they are; and afterwards
\* an Author without Books is removed by nothing but a delete request that
\* reaches its own deleting commit.
C8_TwoCommitGap ==
    [][/\ \A p \in Procs :
          /\ InGap(req'[p])
             => /\ req'[p].book_id \notin Ids(books')
                /\ req'[p].author # 0 => req'[p].author \in Ids(authors')
          /\ (InGap(req[p]) /\ req'[p].pc = "stopped")
             => /\ authors' = authors /\ books' = books
                /\ req[p].pc = "db_orphan"
                   => /\ req[p].author \in Ids(authors')
                      /\ OwnedBy(req[p].author, books') = {}
       /\ \A a \in authors :
             (OwnedBy(a.id, books) = {} /\ a \notin authors')
             => \E p \in Procs :
                   /\ req[p].pc \in {"da_commit", "db_orphan"}
                   /\ req[p].author = a.id
                   /\ req'[p].pc = "idle"]_vars

\* a delete-book request has stopped after its first commit: its Book is
\* gone and the Author it left without Books is still in the store
C8_Witness ==
    /\ req[1].pc = "stopped"
    /\ resp = ServerError("delete_book", req[1].book_id)
    /\ req[1].book_id \notin Ids(books)
    /\ req[1].author \in Ids(authors)
    /\ OwnedBy(req[1].author, books) = {}

AllIdle == \A p \in Procs : req[p].pc = "idle"

\* C10: with a delete-book request interleaved with an add-book request
\* naming the same Author, or with another delete-book request, once all
\* requests have finished every Book's author_id names an Author in the
\* store, and no request has ended in an uncaught failure.
C10_InterleavedDeleteKeepsAuthors ==
    /\ resp.status # 500
    /\ AllIdle => \A b \in books : b.author_id \in Ids(authors)

====
